---- MODULE Spec2Model ----
(***************************************************************************)
(* Model of the QC Metrics Dashboard backend: the DuckDB layer             *)
(* (src/backend/database.py, class QCDatabase) and the Flask handlers that *)
(* drive the single shared instance (src/backend/app.py).                  *)
(*                                                                         *)
(* Numbers: every numeric cell Num(n) denotes the real number n / Scale,   *)
(* so that the quartiles DuckDB interpolates (PERCENTILE_CONT) stay        *)
(* integers.  File contents hold whole numbers, i.e. multiples of Scale.   *)
(* NaN stands for the non-finite doubles (NaN, +Infinity), which DuckDB    *)
(* orders above every finite value and which _safe_float turns into None.  *)
(***************************************************************************)
EXTENDS Integers, Sequences, FiniteSets, TLC

\* ------------------------------------------------------------------------
\* Bounds of the model
\* ------------------------------------------------------------------------
MaxRows == 2

MaxVocabRows == 3

MaxStatRows == 4

MaxFilters == 2

\* quarter units: PERCENTILE_CONT(0.25 / 0.5 / 0.75) interpolates in quarters
Scale == 4

\* ------------------------------------------------------------------------
\* Values
\* ------------------------------------------------------------------------
Str(x) == [k |-> "str", s |-> x, n |-> 0]

Num(x) == [k |-> "num", s |-> "", n |-> x]

NULL == [k |-> "null", s |-> "", n |-> 0]

NaN == [k |-> "nan", s |-> "", n |-> 0]

\* Python None in a response
None == NULL

RECURSIVE SeqToSet(_)
SeqToSet(s) == IF s = <<>> THEN {} ELSE {Head(s)} \cup SeqToSet(Tail(s))

\* all sequences over S of length at most n
RECURSIVE SeqsUpTo(_, _)
SeqsUpTo(S, n) ==
    IF n = 0 THEN {<<>>}
    ELSE LET shorter == SeqsUpTo(S, n - 1)
         IN shorter \cup {Append(q, x) : q \in {r \in shorter : Len(r) = n - 1}, x \in S}

\* str.lower() on the column names of the model
Lower(name) ==
    CASE name = "Machine" -> "machine"
      [] name = "MACHINE" -> "machine"
      [] name = "Assay" -> "assay"
      [] name = "Yield" -> "yield"
      [] name = "Depth" -> "depth"
      [] name = "Sample" -> "sample"
      [] name = "Sample_Name" -> "sample_name"
      [] OTHER -> name

\* binary (code point) order of the strings a VARCHAR column holds in the
\* model: ORDER BY sorts upper case before lower case
StrRank(s) ==
    CASE s = "" -> 0
      [] s = "1" -> 1
      [] s = "All" -> 2
      [] s = "Aviti" -> 3
      [] s = "HiSeq" -> 4
      [] s = "MiSeq" -> 5
      [] s = "NextSeq" -> 6
      [] s = "NovaSeq" -> 7
      [] s = "RNA" -> 8
      [] s = "Revio" -> 9
      [] s = "S1" -> 10
      [] s = "S2" -> 11
      [] s = "WGS" -> 12
      [] OTHER -> 13

\* CAST(? AS DOUBLE) of a bound string parameter: ok = FALSE is DuckDB's
\* Conversion Error
ParseNumber(s) ==
    CASE s = "1" -> [ok |-> TRUE, v |-> Num(1 * Scale)]
      [] s = "2" -> [ok |-> TRUE, v |-> Num(2 * Scale)]
      [] OTHER -> [ok |-> FALSE, v |-> NULL]

\* ORDER BY on cells: finite numbers, then NaN, then NULL (NULLS LAST);
\* strings by binary order
CellLeq(a, b) ==
    CASE b.k = "null" -> TRUE
      [] a.k = "null" -> FALSE
      [] b.k = "nan" -> TRUE
      [] a.k = "nan" -> FALSE
      [] a.k = "num" /\ b.k = "num" -> a.n <= b.n
      [] a.k = "str" /\ b.k = "str" -> StrRank(a.s) <= StrRank(b.s)
      [] OTHER -> TRUE

RECURSIVE InsertSorted(_, _)
InsertSorted(x, s) ==
    IF s = <<>> THEN <<x>>
    ELSE IF CellLeq(x, Head(s)) THEN <<x>> \o s
    ELSE <<Head(s)>> \o InsertSorted(x, Tail(s))

RECURSIVE SortCells(_)
SortCells(s) == IF s = <<>> THEN <<>> ELSE InsertSorted(Head(s), SortCells(Tail(s)))

RECURSIVE Dedup(_)
Dedup(s) ==
    IF s = <<>> THEN <<>>
    ELSE LET rest == Dedup(Tail(s))
         IN IF Head(s) \in SeqToSet(rest) THEN rest ELSE <<Head(s)>> \o rest

\* ------------------------------------------------------------------------
\* The in-memory engine (duckdb.connect(":memory:")): tables and SQL
\* ------------------------------------------------------------------------
Col(name, dtype) == [name |-> name, dtype |-> dtype]

NoTable == [exists |-> FALSE, cols |-> <<>>, rows |-> <<>>]

MkTable(cols, rows) == [exists |-> TRUE, cols |-> cols, rows |-> rows]

\* identifiers are case-insensitive in DuckDB, quoted or not: index of the
\* column "name" resolves to, 0 when the table has no such column
ColIndex(t, name) ==
    LET hits == {i \in 1..Len(t.cols) : Lower(t.cols[i].name) = Lower(name)}
    IN IF hits = {} THEN 0 ELSE CHOOSE i \in hits : \A j \in hits : i <= j

\* "CHAR" in dtype or "TEXT" in dtype, on the type names information_schema
\* reports for the columns of the model
TypeNameContains(dtype, sub) == sub = "CHAR" /\ dtype = "VARCHAR"

\* DROP TABLE IF EXISTS
DropTable(t) == NoTable

\* CREATE TABLE .. AS SELECT * FROM read_parquet(?): ok = FALSE when the file
\* is not a readable parquet file (the statement raises, nothing is created)
CreateTableAs(file) ==
    IF file.valid THEN [ok |-> TRUE, table |-> MkTable(file.cols, file.rows)]
    ELSE [ok |-> FALSE, table |-> NoTable]

\* binding of  "c1" = ? AND "c2" = ? ...  against table t with the
\* parameters bound: fails (Catalog / Binder / Conversion Error) when the
\* table is absent, a column does not resolve, or a string parameter cannot be
\* cast to the numeric type of its column
WhereBinds(t, where, params) ==
    /\ t.exists
    /\ \A i \in 1..Len(where) :
         /\ ColIndex(t, where[i]) # 0
         /\ t.cols[ColIndex(t, where[i])].dtype # "VARCHAR" => ParseNumber(params[i]).ok

\* one clause  "col" = ?  on one row (NULL = x is never true)
ClauseHolds(t, row, col, param) ==
    LET i == ColIndex(t, col)
        cell == row[i]
    IN IF t.cols[i].dtype = "VARCHAR"
       THEN cell.k = "str" /\ cell.s = param
       ELSE cell.k = "num" /\ cell = ParseNumber(param).v

RowMatches(t, row, where, params) ==
    \A i \in 1..Len(where) : ClauseHolds(t, row, where[i], params[i])

\* SELECT * FROM t [WHERE ...]: the matching rows in table order
SelectStar(t, where, params) ==
    IF ~WhereBinds(t, where, params) THEN [ok |-> FALSE, cols |-> <<>>, rows |-> <<>>]
    ELSE [ok |-> TRUE,
          cols |-> [i \in 1..Len(t.cols) |-> t.cols[i].name],
          rows |-> SelectSeq(t.rows, LAMBDA r : RowMatches(t, r, where, params))]

\* SELECT "col" FROM t [WHERE ...] [AND] "col" IS NOT NULL
SelectColNotNull(t, col, where, params) ==
    IF ~WhereBinds(t, where, params) \/ ColIndex(t, col) = 0
    THEN [ok |-> FALSE, vals |-> <<>>, rows |-> <<>>]
    ELSE LET i == ColIndex(t, col)
             hit == SelectSeq(t.rows, LAMBDA r : RowMatches(t, r, where, params) /\ r[i].k # "null")
         IN [ok |-> TRUE, vals |-> [j \in 1..Len(hit) |-> hit[j][i]], rows |-> hit]

\* SELECT "col" FROM t WHERE ... : every value of the column in the matching
\* rows, NULLs included (the input of the aggregates)
SelectCol(t, col, where, params) ==
    IF ~WhereBinds(t, where, params) \/ ColIndex(t, col) = 0
    THEN [ok |-> FALSE, vals |-> <<>>]
    ELSE LET i == ColIndex(t, col)
             hit == SelectSeq(t.rows, LAMBDA r : RowMatches(t, r, where, params))
         IN [ok |-> TRUE, vals |-> [j \in 1..Len(hit) |-> hit[j][i]]]

\* SELECT DISTINCT "col" FROM t ORDER BY "col"
SelectDistinctOrdered(t, col) ==
    LET i == ColIndex(t, col)
    IN SortCells(Dedup([j \in 1..Len(t.rows) |-> t.rows[j][i]]))

\* PERCENTILE_CONT(k / 4) over the sorted non-NULL values v (Len(v) > 0):
\* linear interpolation between the neighbours of position k (N - 1) / 4;
\* an interpolation that touches a non-finite value is non-finite
PercentileCont(v, k) ==
    LET pos == k * (Len(v) - 1)
        lo == v[(pos \div 4) + 1]
        hi == v[IF pos % 4 = 0 THEN (pos \div 4) + 1 ELSE (pos \div 4) + 2]
    IN IF pos % 4 = 0 THEN lo
       ELSE IF lo.k = "nan" \/ hi.k = "nan" THEN NaN
       ELSE Num(lo.n + ((hi.n - lo.n) * (pos % 4)) \div 4)

\* aggregates that take the values in table order, as if already ordered
Aggregate_Unordered(vals) ==
    LET v == SelectSeq(vals, LAMBDA c : c.k # "null")
    IN IF v = <<>> THEN <<NULL, NULL, NULL, NULL, NULL>>
       ELSE <<v[1], PercentileCont(v, 1), PercentileCont(v, 2), PercentileCont(v, 3), v[Len(v)]>>

\* MIN, PERCENTILE_CONT(0.25), MEDIAN, PERCENTILE_CONT(0.75), MAX of the
\* non-NULL values among vals; five NULLs when there is none
Aggregate(vals) ==
    LET v == SortCells(SelectSeq(vals, LAMBDA c : c.k # "null"))
    IN IF v = <<>> THEN <<NULL, NULL, NULL, NULL, NULL>>
       ELSE <<v[1], PercentileCont(v, 1), PercentileCont(v, 2), PercentileCont(v, 3), v[Len(v)]>>

\* ------------------------------------------------------------------------
\* QCDatabase (src/backend/database.py)
\* ------------------------------------------------------------------------
VARIABLES
    qc_data,             \* conn: the table qc_data (NoTable when absent)
    new_samples,         \* conn: the table new_samples (NoTable when absent)
    loaded,              \* self.loaded
    new_samples_loaded,  \* self.new_samples_loaded
    columns,             \* self.columns
    filter_options,      \* self.filter_options
    total_rows,          \* self.total_rows
    new_samples_rows,    \* self.new_samples_rows
    resp,                \* the answer of the last call, until the caller takes it
    pc,                  \* per request thread: the statement it is about to run
    local                \* per request thread: its local variables

vars == <<qc_data, new_samples, loaded, new_samples_loaded, columns, filter_options,
          total_rows, new_samples_rows, resp, pc, local>>

\* the QCDatabase object as one value
DB == [qc_data |-> qc_data, new_samples |-> new_samples, loaded |-> loaded,
       new_samples_loaded |-> new_samples_loaded, columns |-> columns,
       filter_options |-> filter_options, total_rows |-> total_rows,
       new_samples_rows |-> new_samples_rows]

DEFAULT_MACHINES == <<"NovaSeq", "MiSeq", "NextSeq", "Revio">>

SampleNameAliases == {"sample_name", "sample", "samplename", "sample name"}

\* QCDatabase.__init__
NewQCDatabase ==
    [qc_data |-> NoTable, new_samples |-> NoTable, loaded |-> FALSE,
     new_samples_loaded |-> FALSE,
     columns |-> [categorical |-> <<>>, numerical |-> <<>>],
     filter_options |-> <<>>, total_rows |-> 0, new_samples_rows |-> 0]

\* dtype in ("VARCHAR", "BOOLEAN") or "CHAR" in dtype or "TEXT" in dtype
IsCategoricalType(dtype) ==
    \/ dtype \in {"VARCHAR", "BOOLEAN"}
    \/ TypeNameContains(dtype, "CHAR")
    \/ TypeNameContains(dtype, "TEXT")

\* the classification loop of load_parquet
ClassifyColumns(t) ==
    LET names == [i \in 1..Len(t.cols) |-> t.cols[i].name]
        isCat(name) == IsCategoricalType(t.cols[ColIndex(t, name)].dtype)
    IN [categorical |-> SelectSeq(names, isCat),
        numerical |-> SelectSeq(names, LAMBDA c : ~isCat(c))]

\* combined = list(DEFAULT_MACHINES); append each value not yet in combined
RECURSIVE MergeMachines(_, _)
MergeMachines(combined, data_values) ==
    IF data_values = <<>> THEN combined
    ELSE MergeMachines(
            IF Head(data_values) \in SeqToSet(combined) THEN combined
            ELSE Append(combined, Head(data_values)),
            Tail(data_values))

\* the vocabulary of one filterable column
ColumnVocabulary(t, col) ==
    LET vals == SelectDistinctOrdered(t, col)
        notNone == SelectSeq(vals, LAMBDA v : v.k # "null")
        data_values == [i \in 1..Len(notNone) |-> notNone[i].s]
    IN IF Lower(col) = "machine"
       THEN <<"All">> \o MergeMachines(DEFAULT_MACHINES, data_values)
       ELSE <<"All">> \o data_values

\* the filter-option loop of load_parquet
BuildFilterOptions(t, categorical) ==
    LET filterable == {c \in SeqToSet(categorical) : Lower(c) \notin SampleNameAliases}
    IN [c \in filterable |-> ColumnVocabulary(t, c)]

\* load_parquet: raised = TRUE when read_parquet fails, after the DROP
LoadParquet(d, file) ==
    LET dropped == [d EXCEPT !.qc_data = DropTable(d.qc_data)]
        created == CreateTableAs(file)
        cols == ClassifyColumns(created.table)
        opts == BuildFilterOptions(created.table, cols.categorical)
        n == Len(created.table.rows)
    IN IF ~created.ok THEN [raised |-> TRUE, db |-> dropped, info |-> <<>>]
       ELSE [raised |-> FALSE,
             db |-> [dropped EXCEPT !.qc_data = created.table, !.columns = cols,
                                    !.filter_options = opts, !.total_rows = n,
                                    !.loaded = TRUE],
             info |-> [columns |-> cols, filter_options |-> opts, total_rows |-> n]]

\* load_new_samples
LoadNewSamplesOp(d, file) ==
    LET dropped == [d EXCEPT !.new_samples = DropTable(d.new_samples)]
        created == CreateTableAs(file)
        n == Len(created.table.rows)
    IN IF ~created.ok THEN [raised |-> TRUE, db |-> dropped, info |-> <<>>]
       ELSE [raised |-> FALSE,
             db |-> [dropped EXCEPT !.new_samples = created.table,
                                    !.new_samples_rows = n,
                                    !.new_samples_loaded = TRUE],
             info |-> [total_rows |-> n]]

\* clear_new_samples
ClearNewSamplesOp(d) ==
    [d EXCEPT !.new_samples = DropTable(d.new_samples),
              !.new_samples_loaded = FALSE,
              !.new_samples_rows = 0]

\* a _build_where that forgets the "All" sentinel: only empty values are skipped
RECURSIVE BuildWhere_AllConstrains(_)
BuildWhere_AllConstrains(filters) ==
    IF filters = <<>> THEN [where |-> <<>>, params |-> <<>>]
    ELSE LET rest == BuildWhere_AllConstrains(Tail(filters))
         IN IF Head(filters)[2] # ""
            THEN [where |-> <<Head(filters)[1]>> \o rest.where,
                  params |-> <<Head(filters)[2]>> \o rest.params]
            ELSE rest

\* a _build_where that keeps only the first constraint
BuildWhere_FirstOnly(filters) ==
    LET hit == SelectSeq(filters, LAMBDA e : e[2] # "" /\ e[2] # "All")
    IN IF hit = <<>> THEN [where |-> <<>>, params |-> <<>>]
       ELSE [where |-> <<hit[1][1]>>, params |-> <<hit[1][2]>>]

\* _build_where over filters.items(): clauses (their column names) and params
RECURSIVE BuildWhere(_)
BuildWhere(filters) ==
    IF filters = <<>> THEN [where |-> <<>>, params |-> <<>>]
    ELSE LET col == Head(filters)[1]
             val == Head(filters)[2]
             rest == BuildWhere(Tail(filters))
         IN IF val # "" /\ val # "All"
            THEN [where |-> <<col>> \o rest.where, params |-> <<val>> \o rest.params]
            ELSE rest

\* _safe_float: float(v), None when it raises (None, text that is no number)
\* or gives a non-finite number
SafeFloat(v) ==
    CASE v.k = "num" -> v
      [] v.k = "str" /\ ParseNumber(v.s).ok -> ParseNumber(v.s).v
      [] OTHER -> None

\* _row_to_dict
RowToDict(cols, row) ==
    [c \in SeqToSet(cols) |->
        LET i == CHOOSE j \in 1..Len(cols) : cols[j] = c /\ \A m \in 1..Len(cols) : cols[m] = c => m <= j
        IN IF row[i].k = "nan" THEN None ELSE row[i]]

RowsToDicts(r) == [i \in 1..Len(r.rows) |-> RowToDict(r.cols, r.rows[i])]

\* a query_data without the unfiltered retry: new_data stays [] when the
\* filtered SELECT on new_samples fails
QueryData_NoFallback(d, filters) ==
    LET w == BuildWhere(filters)
        ref == SelectStar(d.qc_data, w.where, w.params)
        ns == SelectStar(d.new_samples, w.where, w.params)
    IN IF d.loaded /\ ~ref.ok
       THEN [raised |-> TRUE, data |-> <<>>, new_data |-> <<>>]
       ELSE [raised |-> FALSE,
             data |-> IF d.loaded THEN RowsToDicts(ref) ELSE <<>>,
             new_data |-> IF d.new_samples_loaded /\ ns.ok THEN RowsToDicts(ns) ELSE <<>>]

\* query_data: raised = TRUE when an exception leaves the method
QueryData(d, filters) ==
    LET w == BuildWhere(filters)
        ref == SelectStar(d.qc_data, w.where, w.params)
        ns == SelectStar(d.new_samples, w.where, w.params)
        nsAll == SelectStar(d.new_samples, <<>>, <<>>)
        data == IF d.loaded THEN RowsToDicts(ref) ELSE <<>>
        new_data == IF ~d.new_samples_loaded THEN <<>>
                    ELSE IF ns.ok THEN RowsToDicts(ns) ELSE RowsToDicts(nsAll)
    IN IF (d.loaded /\ ~ref.ok) \/ (d.new_samples_loaded /\ ~ns.ok /\ ~nsAll.ok)
       THEN [raised |-> TRUE, data |-> <<>>, new_data |-> <<>>]
       ELSE [raised |-> FALSE, data |-> data, new_data |-> new_data]

\* _detect_sample_name_col: the first column with a sample-name-like name,
\* "" for None
DetectSampleNameCol(t) ==
    LET hits == {i \in 1..Len(t.cols) : Lower(t.cols[i].name) \in SampleNameAliases}
    IN IF hits = {} THEN ""
       ELSE t.cols[CHOOSE i \in hits : \A j \in hits : i <= j].name

\* the fraction digits Python prints for a DOUBLE with q quarters
FractionDigits(q) ==
    CASE q = 0 -> "0"
      [] q = 1 -> "25"
      [] q = 2 -> "5"
      [] OTHER -> "75"

\* str(r[0]) of a name cell of a column of type dtype (numbers of the model
\* are not negative)
PyStr(c, dtype) ==
    CASE c.k = "str" -> c.s
      [] c.k = "null" -> "None"
      [] c.k = "nan" -> "nan"
      [] dtype = "BIGINT" -> ToString(c.n \div Scale)
      [] OTHER -> ToString(c.n \div Scale) \o "." \o FractionDigits(c.n % Scale)

\* _safe_float_obj on a {name, value} point (has_name: the key "name" is there)
SafeFloatObj(obj) == [obj EXCEPT !.value = SafeFloat(obj.value)]

\* the new_points list of one numerical column: the filtered attempt, the
\* unfiltered retry, then []
NewPoints(d, col, w) ==
    LET t == d.new_samples
        ns_name_col == DetectSampleNameCol(t)
        point(r) == IF ns_name_col # ""
                    THEN [has_name |-> TRUE,
                          name |-> PyStr(r[ColIndex(t, ns_name_col)],
                                         t.cols[ColIndex(t, ns_name_col)].dtype),
                          value |-> r[ColIndex(t, col)]]
                    ELSE [has_name |-> FALSE, name |-> "", value |-> r[ColIndex(t, col)]]
        first == SelectColNotNull(t, col, w.where, w.params)
        retry == SelectColNotNull(t, col, <<>>, <<>>)
    IN IF ~d.new_samples_loaded THEN <<>>
       ELSE IF first.ok THEN [i \in 1..Len(first.rows) |-> point(first.rows[i])]
       ELSE IF retry.ok THEN [i \in 1..Len(retry.rows) |-> point(retry.rows[i])]
       ELSE <<>>

\* the record get_stats stores for a column: row is the aggregate row,
\* points and new_points the two lists
StatsRecord(row, points, new_points) ==
    LET np == [i \in 1..Len(new_points) |-> SafeFloatObj(new_points[i])]
    IN IF row[1].k # "null"
       THEN [min |-> SafeFloat(row[1]), q1 |-> SafeFloat(row[2]),
             median |-> SafeFloat(row[3]), q3 |-> SafeFloat(row[4]),
             max |-> SafeFloat(row[5]),
             points |-> [i \in 1..Len(points) |-> SafeFloat(points[i])],
             new_points |-> np]
       ELSE [min |-> Num(0), q1 |-> Num(0), median |-> Num(0), q3 |-> Num(0),
             max |-> Num(0), points |-> <<>>, new_points |-> np]

\* one pass of the loop of get_stats, for column col (both SELECTs bound)
ColumnStats(d, col, w) ==
    StatsRecord(Aggregate(SelectCol(d.qc_data, col, w.where, w.params).vals),
                SelectColNotNull(d.qc_data, col, w.where, w.params).vals,
                NewPoints(d, col, w))

\* get_stats: raised = TRUE when a SELECT on qc_data fails
GetStats(d, filters) ==
    LET w == BuildWhere(filters)
        numerical == SeqToSet(d.columns.numerical)
    IN IF ~d.loaded THEN [raised |-> FALSE, stats |-> <<>>]
       ELSE IF \E c \in numerical : ~SelectCol(d.qc_data, c, w.where, w.params).ok
       THEN [raised |-> TRUE, stats |-> <<>>]
       ELSE [raised |-> FALSE, stats |-> [c \in numerical |-> ColumnStats(d, c, w)]]

\* get_filter_options
GetFilterOptions(d) == d.filter_options

\* ------------------------------------------------------------------------
\* Flask handlers on the shared instance db (src/backend/app.py)
\* ------------------------------------------------------------------------
NoResp == [op |-> "none", status |-> "", body |-> <<>>]

\* f.filename.lower().endswith(".parquet") on the file names of the model
EndsWithParquet(filename) == filename \in {"qc.parquet", "QC.PARQUET"}

\* upload()
UploadHandler(d, req) ==
    IF ~req.has_file
    THEN [db |-> d, resp |-> [op |-> "upload", status |-> "400", body |-> "No file provided"]]
    ELSE IF req.filename = "" \/ ~EndsWithParquet(req.filename)
    THEN [db |-> d,
          resp |-> [op |-> "upload", status |-> "400", body |-> "File must be a .parquet file"]]
    ELSE LET r == LoadParquet(d, req.file)
         IN IF r.raised
            THEN [db |-> r.db, resp |-> [op |-> "upload", status |-> "500", body |-> "error"]]
            ELSE [db |-> r.db, resp |-> [op |-> "upload", status |-> "200", body |-> r.info]]

\* filters()
FiltersHandler(d) ==
    IF ~d.loaded THEN [op |-> "filters", status |-> "400", body |-> "No data loaded"]
    ELSE [op |-> "filters", status |-> "200", body |-> GetFilterOptions(d)]

\* query(): count is len() of the dict query_data returns
QueryHandler(d, filters) ==
    IF ~d.loaded
    THEN [op |-> "query", status |-> "400", body |-> "No data loaded", filters |-> filters]
    ELSE LET r == QueryData(d, filters)
             data == [data |-> r.data, new_data |-> r.new_data]
         IN IF r.raised
            THEN [op |-> "query", status |-> "500", body |-> "error", filters |-> filters]
            ELSE [op |-> "query", status |-> "200", filters |-> filters,
                  body |-> [data |-> data, count |-> Cardinality(DOMAIN data),
                            total |-> d.total_rows]]

\* stats()
StatsHandler(d, filters) ==
    IF ~d.loaded
    THEN [op |-> "stats", status |-> "400", body |-> "No data loaded", filters |-> filters]
    ELSE LET r == GetStats(d, filters)
         IN IF r.raised
            THEN [op |-> "stats", status |-> "500", body |-> "error", filters |-> filters]
            ELSE [op |-> "stats", status |-> "200", body |-> r.stats, filters |-> filters]

\* ------------------------------------------------------------------------
\* Inputs
\* ------------------------------------------------------------------------
BadFile == [valid |-> FALSE, cols |-> <<>>, rows |-> <<>>]

File(cols, rows) == [valid |-> TRUE, cols |-> cols, rows |-> rows]

\* the whole number n as a DOUBLE / BIGINT cell
Whole(n) == Num(n * Scale)

RefSchemaA == <<Col("Assay", "VARCHAR"), Col("Yield", "DOUBLE")>>

RefRowsA ==
    {<<Str("WGS"), Whole(1)>>, <<Str("WGS"), NaN>>, <<Str("RNA"), Whole(2)>>,
     <<Str("RNA"), NULL>>, <<NULL, Whole(1)>>}

\* Scenario C of the specification: a Machine column holding only "HiSeq"
MachineFileC == File(<<Col("Machine", "VARCHAR"), Col("Depth", "BIGINT")>>,
                     <<<<Str("HiSeq"), Whole(3)>>>>)

RefFiles ==
    {BadFile, MachineFileC} \cup {File(RefSchemaA, rows) : rows \in SeqsUpTo(RefRowsA, MaxRows)}

NsFiles ==
    {BadFile,
     File(<<Col("Sample", "VARCHAR"), Col("Assay", "VARCHAR"), Col("Yield", "DOUBLE")>>,
          <<<<Str("S1"), Str("WGS"), Whole(1)>>, <<Str("S2"), Str("RNA"), Whole(2)>>,
            <<NULL, Str("WGS"), NaN>>>>),
     File(<<Col("Depth", "BIGINT")>>, <<<<Whole(3)>>, <<NULL>>>>),
     File(<<Col("Assay", "BIGINT"), Col("Yield", "DOUBLE")>>,
          <<<<Whole(1), Whole(1)>>, <<Whole(2), Whole(2)>>>>),
     File(<<Col("Sample_Name", "VARCHAR"), Col("yield", "DOUBLE")>>,
          <<<<Str("S1"), Whole(2)>>>>),
     File(<<Col("Assay", "VARCHAR")>>, <<>>),
     File(<<Col("Sample", "BIGINT"), Col("Yield", "VARCHAR")>>,
          <<<<Whole(7), Str("2")>>, <<Whole(8), Str("high")>>>>)}

UploadRequests ==
    {[has_file |-> FALSE, filename |-> "", file |-> BadFile],
     [has_file |-> TRUE, filename |-> "qc.csv", file |-> BadFile],
     [has_file |-> TRUE, filename |-> "", file |-> BadFile]}
    \cup {[has_file |-> TRUE, filename |-> "qc.parquet", file |-> f] : f \in RefFiles}
    \cup {[has_file |-> TRUE, filename |-> "QC.PARQUET", file |-> MachineFileC]}

FilterCols == {"Assay", "Yield"}

FilterVals == {"All", "", "WGS", "1"}

\* a filters dict as its items(): pairs <<column, value>> with distinct keys
Selections ==
    {f \in SeqsUpTo(FilterCols \X FilterVals, Cardinality(FilterCols)) :
        \A i, j \in 1..Len(f) : i # j => f[i][1] # f[j][1]}

\* the request threads of the concurrent server
Threads == {"u1", "u2", "q"}

\* file, filters: the request; categorical, data, todo, row, acc: locals of
\* load_parquet, query_data and get_stats; seen: the answer the thread sent
NoLocal ==
    [file |-> BadFile, filters |-> <<>>, categorical |-> <<>>, data |-> <<>>,
     todo |-> <<>>, row |-> <<>>, acc |-> <<>>, seen |-> NoResp]

\* ------------------------------------------------------------------------
\* Sequential service: one call at a time, each handler as one step
\* ------------------------------------------------------------------------
SetDB(d) ==
    /\ qc_data' = d.qc_data
    /\ new_samples' = d.new_samples
    /\ loaded' = d.loaded
    /\ new_samples_loaded' = d.new_samples_loaded
    /\ columns' = d.columns
    /\ filter_options' = d.filter_options
    /\ total_rows' = d.total_rows
    /\ new_samples_rows' = d.new_samples_rows

dbvars == <<qc_data, new_samples, loaded, new_samples_loaded, columns, filter_options,
            total_rows, new_samples_rows>>

Init ==
    /\ qc_data = NewQCDatabase.qc_data
    /\ new_samples = NewQCDatabase.new_samples
    /\ loaded = NewQCDatabase.loaded
    /\ new_samples_loaded = NewQCDatabase.new_samples_loaded
    /\ columns = NewQCDatabase.columns
    /\ filter_options = NewQCDatabase.filter_options
    /\ total_rows = NewQCDatabase.total_rows
    /\ new_samples_rows = NewQCDatabase.new_samples_rows
    /\ resp = NoResp
    /\ pc = [t \in Threads |-> "idle"]
    /\ local = [t \in Threads |-> NoLocal]

Ready == resp = NoResp /\ \A t \in Threads : pc[t] = "idle"

Upload(req) ==
    /\ Ready
    /\ SetDB(UploadHandler(DB, req).db)
    /\ resp' = UploadHandler(DB, req).resp
    /\ UNCHANGED <<pc, local>>

Filters ==
    /\ Ready
    /\ resp' = FiltersHandler(DB)
    /\ UNCHANGED <<dbvars, pc, local>>

Query(filters) ==
    /\ Ready
    /\ resp' = QueryHandler(DB, filters)
    /\ UNCHANGED <<dbvars, pc, local>>

Stats(filters) ==
    /\ Ready
    /\ resp' = StatsHandler(DB, filters)
    /\ UNCHANGED <<dbvars, pc, local>>

LoadNewSamples(file) ==
    /\ Ready
    /\ SetDB(LoadNewSamplesOp(DB, file).db)
    /\ resp' = [op |-> "load_new_samples",
                status |-> IF LoadNewSamplesOp(DB, file).raised THEN "raised" ELSE "returned",
                body |-> LoadNewSamplesOp(DB, file).info]
    /\ UNCHANGED <<pc, local>>

ClearNewSamples ==
    /\ Ready
    /\ SetDB(ClearNewSamplesOp(DB))
    /\ resp' = [op |-> "clear_new_samples", status |-> "returned", body |-> <<>>]
    /\ UNCHANGED <<pc, local>>

\* the caller takes the answer; the next call may start
Receive ==
    /\ resp # NoResp
    /\ \A t \in Threads : pc[t] = "idle"
    /\ resp' = NoResp
    /\ UNCHANGED <<dbvars, pc, local>>

Next ==
    \/ \E req \in UploadRequests : Upload(req)
    \/ Filters
    \/ \E filters \in Selections : Query(filters)
    \/ \E filters \in Selections : Stats(filters)
    \/ \E file \in NsFiles : LoadNewSamples(file)
    \/ ClearNewSamples
    \/ Receive

Spec == Init /\ [][Next]_vars

\* ------------------------------------------------------------------------
\* What the claims speak of
\* ------------------------------------------------------------------------
\* the entries of a selection that constrain: value non-empty and not "All"
Constraining(f) == {i \in 1..Len(f) : f[i][2] # "" /\ f[i][2] # "All"}

\* column c exists in table t (as the engine resolves names)
ColumnExists(t, c) == \E i \in 1..Len(t.cols) : Lower(t.cols[i].name) = Lower(c)

\* the cell holds the selected value: the same text, or the number the text
\* denotes
ValueEquals(cell, val) ==
    \/ cell.k = "str" /\ cell.s = val
    \/ cell.k = "num" /\ ParseNumber(val).ok /\ cell.n = ParseNumber(val).v.n

\* row (of table t) satisfies every constraint of selection f
Satisfies(t, row, f) ==
    \A i \in Constraining(f) :
        \E j \in 1..Len(t.cols) :
            Lower(t.cols[j].name) = Lower(f[i][1]) /\ ValueEquals(row[j], f[i][2])

\* the emitted form of a row: a mapping column -> value, non-finite as None
Emitted(t, row) ==
    [c \in {t.cols[j].name : j \in 1..Len(t.cols)} |->
        LET j == CHOOSE m \in 1..Len(t.cols) : t.cols[m].name = c
        IN IF row[j].k = "nan" THEN None ELSE row[j]]

\* the positions of the rows of t that satisfy f, ascending
MatchingPositions(t, f) ==
    SelectSeq([i \in 1..Len(t.rows) |-> i], LAMBDA i : Satisfies(t, t.rows[i], f))

\* out is exactly the rows of t that satisfy f, each once, in table order
ExactlyMatching(out, t, f) ==
    LET pos == MatchingPositions(t, f)
    IN /\ Len(out) = Len(pos)
       /\ \A k \in 1..Len(pos) : out[k] = Emitted(t, t.rows[pos[k]])

\* out is every row of t, unfiltered
AllRowsOf(out, t) ==
    /\ Len(out) = Len(t.rows)
    /\ \A k \in 1..Len(t.rows) : out[k] = Emitted(t, t.rows[k])

\* C1: whenever /query answers for a selection whose constrained columns all
\* exist in the loaded reference table, the reference rows of the answer are
\* exactly the rows of the table that hold the selected value in every
\* constrained column: none missing, none extra.
C1_QueryReturnsExactlyMatchingRows ==
    (/\ resp.op = "query"
     /\ resp.status = "200"
     /\ qc_data.exists
     /\ \A i \in Constraining(resp.filters) : ColumnExists(qc_data, resp.filters[i][1]))
    => ExactlyMatching(resp.body.data.data, qc_data, resp.filters)

\* a constrained query that keeps some rows of the reference table and drops
\* others
C1_Witness ==
    /\ resp.op = "query"
    /\ resp.status = "200"
    /\ qc_data.exists
    /\ Constraining(resp.filters) # {}
    /\ Len(resp.body.data.data) > 0
    /\ Len(resp.body.data.data) < Len(qc_data.rows)

\* the reference slot of the object
RefSlot(d) == <<d.qc_data, d.loaded, d.columns, d.filter_options, d.total_rows>>

\* what a call hands back for the reference table: rows, or the exception
RefRowsReturned(d, f) == <<QueryData(d, f).raised, QueryData(d, f).data>>

\* the reference part of a statistics result: everything but new_points
RefStatsReturned(d, f) ==
    LET r == GetStats(d, f)
    IN <<r.raised,
         [c \in DOMAIN r.stats |->
            <<r.stats[c].min, r.stats[c].q1, r.stats[c].median, r.stats[c].q3,
              r.stats[c].max, r.stats[c].points>>]>>

\* C2: an upload whose file cannot be read as parquet leaves the reference
\* slot exactly as it was: table, loaded flag, classification, vocabulary and
\* row count, hence also every query and stats answer.
C2_FailedLoadLeavesReference ==
    [][(resp.op = "none" /\ resp'.op = "upload" /\ resp'.status = "500")
        => /\ RefSlot(DB') = RefSlot(DB)
           /\ \A f \in Selections :
                /\ QueryHandler(DB', f) = QueryHandler(DB, f)
                /\ StatsHandler(DB', f) = StatsHandler(DB, f)]_vars

\* C5: before any successful reference load a stats request answers with an
\* empty mapping and no error, and a query request fails with NotLoaded.
C5_StatsEmptyQueryNotLoaded ==
    ~loaded =>
        /\ resp.op = "stats" => (resp.status = "200" /\ resp.body = <<>>)
        /\ resp.op = "query" => resp.status = "400"

\* C6: each slot is Unloaded or Loaded: the flag is set exactly when the table
\* exists in the engine, the row count is the number of rows of the table when
\* it exists and 0 when it does not.
C6_SlotStateMachine ==
    /\ loaded <=> qc_data.exists
    /\ total_rows = (IF qc_data.exists THEN Len(qc_data.rows) ELSE 0)
    /\ new_samples_loaded <=> new_samples.exists
    /\ new_samples_rows = (IF new_samples.exists THEN Len(new_samples.rows) ELSE 0)

\* C10: load_new_samples and clear_new_samples leave the reference slot
\* untouched, and with it the reference rows and the reference statistics
\* handed back for every selection.
C10_NewSamplesOpsLeaveReference ==
    [][(resp.op = "none" /\ resp'.op \in {"load_new_samples", "clear_new_samples"})
        => /\ RefSlot(DB') = RefSlot(DB)
           /\ \A f \in Selections :
                /\ RefRowsReturned(DB', f) = RefRowsReturned(DB, f)
                /\ RefStatsReturned(DB', f) = RefStatsReturned(DB, f)]_vars

\* both tables are in the engine and flagged loaded
BothLoaded == loaded /\ qc_data.exists /\ new_samples_loaded /\ new_samples.exists

\* selection f can be applied to table t: every constrained column exists
\* and the selected value converts to the type of its column
Applies(t, f) ==
    \A i \in Constraining(f) :
        \E j \in 1..Len(t.cols) :
            /\ Lower(t.cols[j].name) = Lower(f[i][1])
            /\ t.cols[j].dtype = "VARCHAR" \/ ParseNumber(f[i][2]).ok

\* C4 as claimed: with both tables loaded, newRows is exactly the matching
\* new-samples rows when every constrained column exists in new_samples, and
\* otherwise all new-samples rows, with no error and the reference rows still
\* filtered.
C4_FilteredWhenColumnsExist ==
    (resp.op = "query" /\ BothLoaded) =>
        IF \A i \in Constraining(resp.filters) : ColumnExists(new_samples, resp.filters[i][1])
        THEN resp.status = "200"
                => ExactlyMatching(resp.body.data.new_data, new_samples, resp.filters)
        ELSE /\ resp.status = "200"
             /\ AllRowsOf(resp.body.data.new_data, new_samples)
             /\ ExactlyMatching(resp.body.data.data, qc_data, resp.filters)

\* C4 as amended: with both tables loaded and a selection that applies to the
\* reference table, /query answers without error, the reference rows are
\* exactly the matching ones, and newRows is exactly the matching new-samples
\* rows when the selection applies to new_samples too (columns exist, values
\* convert) and all new-samples rows otherwise; a selection that does not
\* apply to the reference table makes the query fail.
C4_FilteredWhenPredicateApplies ==
    (resp.op = "query" /\ BothLoaded) =>
        IF Applies(qc_data, resp.filters)
        THEN /\ resp.status = "200"
             /\ ExactlyMatching(resp.body.data.data, qc_data, resp.filters)
             /\ IF Applies(new_samples, resp.filters)
                THEN ExactlyMatching(resp.body.data.new_data, new_samples, resp.filters)
                ELSE AllRowsOf(resp.body.data.new_data, new_samples)
        ELSE resp.status = "500"

\* the fallback at work: a constrained column is missing from new_samples,
\* all its rows come back while the reference rows are cut down
C4_Witness ==
    /\ resp.op = "query"
    /\ resp.status = "200"
    /\ BothLoaded
    /\ \E i \in Constraining(resp.filters) : ~ColumnExists(new_samples, resp.filters[i][1])
    /\ Len(resp.body.data.new_data) = Len(new_samples.rows)
    /\ Len(new_samples.rows) > 0
    /\ Len(resp.body.data.data) > 0
    /\ Len(resp.body.data.data) < Len(qc_data.rows)

\* the identifier column as the specification defines it: the first
\* categorical column of t whose name is a sample-identifier alias, 0 if none
CategoricalIdentifier(t) ==
    LET hits == {i \in 1..Len(t.cols) :
                    /\ IsCategoricalType(t.cols[i].dtype)
                    /\ Lower(t.cols[i].name) \in SampleNameAliases}
    IN IF hits = {} THEN 0 ELSE CHOOSE i \in hits : \A j \in hits : i <= j

\* selection f constrains a column that table t does not have
ReferencesAbsentColumn(t, f) ==
    \E i \in Constraining(f) : ~ColumnExists(t, f[i][1])

\* the new-points the specification describes for column c of table t under
\* selection f: the non-missing c values of the rows satisfying f, of all rows
\* when f references a column t lacks, none when t lacks c; each labelled from
\* the categorical identifier column when there is one
ClaimedNewPoints(t, c, f) ==
    LET ci == ColIndex(t, c)
        id == CategoricalIdentifier(t)
        rows == IF ci = 0 THEN <<>>
                ELSE SelectSeq(t.rows,
                               LAMBDA r : /\ r[ci].k # "null"
                                          /\ ReferencesAbsentColumn(t, f) \/ Satisfies(t, r, f))
    IN [k \in 1..Len(rows) |->
          [has_name |-> id # 0,
           name |-> IF id # 0 THEN PyStr(rows[k][id], t.cols[id].dtype) ELSE "",
           value |-> SafeFloat(rows[k][ci])]]

\* C11: with both tables loaded, for every numerical column c of the reference
\* table and every selection, the new-points of /stats for c are the
\* non-missing c values of the new-samples rows satisfying the selection when
\* it applies to new_samples, of all new-samples rows when it references a
\* column new_samples lacks, and none when new_samples lacks c; each point is
\* labelled exactly when new_samples has a categorical identifier column (the
\* first one), and the request fails only when the selection cannot be applied
\* to the reference table.
C11_NewPointsFilteredRetriedOrEmpty ==
    (resp.op = "stats" /\ BothLoaded) =>
        /\ resp.status = "500" => ~Applies(qc_data, resp.filters)
        /\ resp.status = "200" =>
              \A c \in DOMAIN resp.body :
                  LET np == resp.body[c].new_points
                  IN /\ (\/ Applies(new_samples, resp.filters)
                          \/ ReferencesAbsentColumn(new_samples, resp.filters))
                         => np = ClaimedNewPoints(new_samples, c, resp.filters)
                     /\ \A k \in 1..Len(np) :
                            np[k].has_name <=> CategoricalIdentifier(new_samples) # 0

\* C12: whenever /query answers for a selection on the loaded reference
\* table, the count field is the number of reference rows matching the
\* selection, and so never exceeds the total field, the reference row count.
C12_CountIsMatchingRows ==
    (resp.op = "query" /\ resp.status = "200" /\ qc_data.exists) =>
        /\ resp.body.count = Len(MatchingPositions(qc_data, resp.filters))
        /\ resp.body.count <= resp.body.total

\* ------------------------------------------------------------------------
\* _build_where on its own
\* ------------------------------------------------------------------------
WhereCols == {"Assay", "Yield", "Machine"}

WhereSelections ==
    {f \in SeqsUpTo(WhereCols \X FilterVals, MaxFilters) :
        \A i, j \in 1..Len(f) : i # j => f[i][1] # f[j][1]}

CallBuildWhere(filters) ==
    /\ Ready
    /\ resp' = [op |-> "_build_where", status |-> "returned", body |-> BuildWhere(filters),
                filters |-> filters]
    /\ UNCHANGED <<dbvars, pc, local>>

WhereNext ==
    \/ \E filters \in WhereSelections : CallBuildWhere(filters)
    \/ Receive

WhereSpec == Init /\ [][WhereNext]_vars

\* C7: the predicate built from a selection has exactly one equality
\* constraint per entry whose value is non-empty and not "All", bound to that
\* entry's value, and no constraint on any other column; with no such entry
\* the query is unfiltered.
C7_OneConstraintPerConstrainingEntry ==
    resp.op = "_build_where" =>
        LET f == resp.filters
            w == resp.body
        IN /\ Len(w.where) = Len(w.params)
           /\ Len(w.where) = Cardinality(Constraining(f))
           /\ \A i \in Constraining(f) :
                \E k \in 1..Len(w.where) :
                    /\ w.where[k] = f[i][1]
                    /\ w.params[k] = f[i][2]
                    /\ \A m \in 1..Len(w.where) : w.where[m] = f[i][1] => m = k
           /\ \A k \in 1..Len(w.where) : \E i \in Constraining(f) : w.where[k] = f[i][1]
           /\ Constraining(f) = {} => w.where = <<>>

\* a selection mixing "All", an empty value and a real value: one constraint
C7_Witness ==
    /\ resp.op = "_build_where"
    /\ \E i, j \in 1..Len(resp.filters) :
         /\ resp.filters[i][2] \in {"All", ""}
         /\ resp.filters[j][2] \notin {"All", ""}
    /\ Len(resp.body.where) = 1

\* ------------------------------------------------------------------------
\* The vocabulary of the merge column
\* ------------------------------------------------------------------------
MachineNames == {"Machine", "machine", "MACHINE"}

MachinePool == {Str("HiSeq"), Str("Aviti"), Str("Revio"), Str("All"), NULL}

MachineFiles ==
    {File(<<Col(name, "VARCHAR")>>, [i \in 1..Len(vals) |-> <<vals[i]>>]) :
        name \in MachineNames, vals \in SeqsUpTo(MachinePool, MaxVocabRows)}

VocabRequests ==
    {[has_file |-> TRUE, filename |-> "qc.parquet", file |-> f] : f \in MachineFiles}

VocabNext ==
    \/ \E req \in VocabRequests : Upload(req)
    \/ Filters
    \/ Receive

VocabSpec == Init /\ [][VocabNext]_vars

\* the values observed in the first column of the reference table
ObservedValues == {qc_data.rows[i][1].s : i \in {j \in 1..Len(qc_data.rows) : qc_data.rows[j][1].k = "str"}}

\* v is: "All", the defaults in their order, then the observed values that
\* are no default, each once, in sorted order
MergedVocabulary(v) ==
    LET extras == ObservedValues \ SeqToSet(DEFAULT_MACHINES)
        nd == Len(DEFAULT_MACHINES)
    IN /\ Len(v) = 1 + nd + Cardinality(extras)
       /\ v[1] = "All"
       /\ \A i \in 1..nd : v[i + 1] = DEFAULT_MACHINES[i]
       /\ \A k \in (nd + 2)..Len(v) : v[k] \in extras
       /\ \A k, m \in (nd + 2)..Len(v) : k < m => StrRank(v[k]) < StrRank(v[m])

NoDuplicates(v) == \A i, j \in 1..Len(v) : i # j => v[i] # v[j]

\* C8: after a load, the vocabulary of the column named "machine" (any case)
\* is "All", then the defaults in their order, then each observed value that
\* is no default once, in sorted order; and no entry occurs twice in it.
C8_MachineVocabularyMergedNoDuplicates ==
    (resp.op = "upload" /\ resp.status = "200") =>
        \A c \in DOMAIN resp.body.filter_options :
            Lower(c) = "machine" =>
                /\ MergedVocabulary(resp.body.filter_options[c])
                /\ NoDuplicates(resp.body.filter_options[c])

\* ------------------------------------------------------------------------
\* Statistics over a loaded reference table
\* ------------------------------------------------------------------------
StatRows ==
    {<<Str("WGS"), Whole(0)>>, <<Str("WGS"), Whole(1)>>, <<Str("WGS"), Whole(3)>>,
     <<Str("WGS"), NaN>>, <<Str("WGS"), NULL>>, <<Str("RNA"), Whole(1)>>,
     <<Str("RNA"), Whole(2)>>, <<Str("RNA"), NULL>>}

StatFiles == {File(RefSchemaA, rows) : rows \in SeqsUpTo(StatRows, MaxStatRows)}

StatSelections ==
    {<<>>, <<<<"Assay", "WGS">>>>, <<<<"Assay", "RNA">>>>, <<<<"Yield", "1">>>>,
     <<<<"Assay", "All">>, <<"Yield", "">>>>, <<<<"Yield", "1">>, <<"Assay", "WGS">>>>}

\* the object after construction and one successful upload
StatsInit ==
    /\ \E file \in StatFiles :
         LET d == LoadParquet(NewQCDatabase, file).db
         IN /\ qc_data = d.qc_data
            /\ new_samples = d.new_samples
            /\ loaded = d.loaded
            /\ new_samples_loaded = d.new_samples_loaded
            /\ columns = d.columns
            /\ filter_options = d.filter_options
            /\ total_rows = d.total_rows
            /\ new_samples_rows = d.new_samples_rows
    /\ resp = NoResp
    /\ pc = [t \in Threads |-> "idle"]
    /\ local = [t \in Threads |-> NoLocal]

StatsNext ==
    \/ \E filters \in StatSelections : Stats(filters)
    \/ Receive

StatsSpec == StatsInit /\ [][StatsNext]_vars

\* the values of column c in the rows of the reference table that satisfy f,
\* NULLs left out, as a set of cells
FilteredValues(c, f) ==
    {qc_data.rows[i][ColIndex(qc_data, c)] :
        i \in {j \in 1..Len(qc_data.rows) :
                 /\ Satisfies(qc_data, qc_data.rows[j], f)
                 /\ qc_data.rows[j][ColIndex(qc_data, c)].k # "null"}}

Five(r) == <<r.min, r.q1, r.median, r.q3, r.max>>

\* min <= q1 <= median <= q3 <= max, all five numbers, min and max the
\* smallest and the largest of the points
OrderedStats(r) ==
    /\ \A i \in 1..5 : Five(r)[i].k = "num"
    /\ \A i \in 1..4 : Five(r)[i].n <= Five(r)[i + 1].n
    /\ \A i \in 1..Len(r.points) :
         /\ r.points[i].k = "num"
         /\ r.min.n <= r.points[i].n
         /\ r.points[i].n <= r.max.n
    /\ \E i \in 1..Len(r.points) : r.points[i] = r.min
    /\ \E i \in 1..Len(r.points) : r.points[i] = r.max

ZeroStats(r) == (\A i \in 1..5 : Five(r)[i] = Num(0)) /\ r.points = <<>>

\* C9 as claimed: for every numerical column and selection, the statistics
\* are ordered, with min and max the extremes of the points, whenever a
\* filtered non-missing value exists; all five are 0 and points is empty when
\* none exists.
C9_StatsOrderedWheneverValueExists ==
    (resp.op = "stats" /\ resp.status = "200") =>
        \A c \in DOMAIN resp.body :
            IF FilteredValues(c, resp.filters) # {}
            THEN OrderedStats(resp.body[c])
            ELSE ZeroStats(resp.body[c])

\* C9 as amended: the statistics are ordered, with min and max the extremes
\* of the points, whenever a filtered non-missing value exists and every
\* filtered non-missing value is finite; all five are 0 and points is empty
\* when no filtered non-missing value exists.
C9_StatsOrderedWhenValuesFinite ==
    (resp.op = "stats" /\ resp.status = "200") =>
        \A c \in DOMAIN resp.body :
            /\ (/\ FilteredValues(c, resp.filters) # {}
                /\ \A v \in FilteredValues(c, resp.filters) : v.k = "num")
               => OrderedStats(resp.body[c])
            /\ FilteredValues(c, resp.filters) = {} => ZeroStats(resp.body[c])

\* a filtered column with three points whose five statistics all differ
C9_Witness ==
    /\ resp.op = "stats"
    /\ resp.status = "200"
    /\ Constraining(resp.filters) # {}
    /\ \E c \in DOMAIN resp.body :
         /\ Len(resp.body[c].points) >= 3
         /\ OrderedStats(resp.body[c])
         /\ \A i \in 1..4 : Five(resp.body[c])[i].n < Five(resp.body[c])[i + 1].n

\* ------------------------------------------------------------------------
\* Concurrent service: app.run() serves each request in its own thread, all
\* on the one QCDatabase; a thread runs one statement of its handler per step
\* (the engine runs each SQL statement atomically)
\* ------------------------------------------------------------------------
Uploaders == {"u1", "u2"}

ConcFiles ==
    {File(RefSchemaA, <<<<Str("WGS"), Whole(1)>>>>),
     File(RefSchemaA, <<<<Str("RNA"), Whole(2)>>, <<Str("WGS"), Whole(3)>>>>),
     MachineFileC}

Goto(t, label) == pc' = [pc EXCEPT ![t] = label]

\* the handler of thread t returns: its answer is sent, the thread is free
Answer(t, answer) ==
    /\ pc' = [pc EXCEPT ![t] = "idle"]
    /\ local' = [local EXCEPT ![t] = [NoLocal EXCEPT !.seen = answer]]

\* upload(): the request arrives with a readable .parquet file
UploadBegin(t, file) ==
    /\ pc[t] = "idle"
    /\ resp = NoResp
    /\ Goto(t, "drop")
    /\ local' = [local EXCEPT ![t] = [NoLocal EXCEPT !.file = file]]
    /\ UNCHANGED <<dbvars, resp>>

\* load_parquet: DROP TABLE IF EXISTS qc_data
UploadDrop(t) ==
    /\ pc[t] = "drop"
    /\ qc_data' = DropTable(qc_data)
    /\ Goto(t, "create")
    /\ UNCHANGED <<new_samples, loaded, new_samples_loaded, columns, filter_options,
                   total_rows, new_samples_rows, resp, local>>

\* load_parquet: CREATE TABLE qc_data AS ...; raises when the file is
\* unreadable or when qc_data exists (again)
UploadCreate(t) ==
    /\ pc[t] = "create"
    /\ IF qc_data.exists \/ ~CreateTableAs(local[t].file).ok
       THEN /\ Answer(t, [op |-> "upload", status |-> "500", body |-> "error"])
            /\ UNCHANGED qc_data
       ELSE /\ qc_data' = CreateTableAs(local[t].file).table
            /\ Goto(t, "classify")
            /\ UNCHANGED local
    /\ UNCHANGED <<new_samples, loaded, new_samples_loaded, columns, filter_options,
                   total_rows, new_samples_rows, resp>>

\* load_parquet: read information_schema.columns, classify, set self.columns
UploadClassify(t) ==
    /\ pc[t] = "classify"
    /\ columns' = ClassifyColumns(qc_data)
    /\ local' = [local EXCEPT ![t].categorical = ClassifyColumns(qc_data).categorical]
    /\ Goto(t, "options")
    /\ UNCHANGED <<qc_data, new_samples, loaded, new_samples_loaded, filter_options,
                   total_rows, new_samples_rows, resp>>

\* load_parquet: the SELECT DISTINCT loop over the local list categorical;
\* raises when qc_data is gone or lacks one of these columns
UploadOptions(t) ==
    /\ pc[t] = "options"
    /\ LET cats == local[t].categorical
           filterable == {c \in SeqToSet(cats) : Lower(c) \notin SampleNameAliases}
       IN IF filterable # {} /\ (~qc_data.exists \/ \E c \in filterable : ColIndex(qc_data, c) = 0)
          THEN /\ Answer(t, [op |-> "upload", status |-> "500", body |-> "error"])
               /\ filter_options' = <<>>
          ELSE /\ filter_options' = BuildFilterOptions(qc_data, cats)
               /\ Goto(t, "count")
               /\ UNCHANGED local
    /\ UNCHANGED <<qc_data, new_samples, loaded, new_samples_loaded, columns,
                   total_rows, new_samples_rows, resp>>

\* load_parquet: SELECT COUNT(*) FROM qc_data
UploadCount(t) ==
    /\ pc[t] = "count"
    /\ IF ~qc_data.exists
       THEN /\ Answer(t, [op |-> "upload", status |-> "500", body |-> "error"])
            /\ UNCHANGED total_rows
       ELSE /\ total_rows' = Len(qc_data.rows)
            /\ Goto(t, "flag")
            /\ UNCHANGED local
    /\ UNCHANGED <<qc_data, new_samples, loaded, new_samples_loaded, columns,
                   filter_options, new_samples_rows, resp>>

\* load_parquet: self.loaded = True, and the return
UploadFlag(t) ==
    /\ pc[t] = "flag"
    /\ loaded' = TRUE
    /\ Answer(t, [op |-> "upload", status |-> "200",
                  body |-> [columns |-> columns, filter_options |-> filter_options,
                            total_rows |-> total_rows]])
    /\ UNCHANGED <<qc_data, new_samples, new_samples_loaded, columns, filter_options,
                   total_rows, new_samples_rows, resp>>

\* query() / stats(): the request arrives with the empty selection
ReadBegin(t, op) ==
    /\ pc[t] = "idle"
    /\ resp = NoResp
    /\ Goto(t, op)
    /\ local' = [local EXCEPT ![t] = NoLocal]
    /\ UNCHANGED <<dbvars, resp>>

\* query(): if not db.loaded
QueryCheck(t) ==
    /\ pc[t] = "query"
    /\ IF ~loaded
       THEN Answer(t, [op |-> "query", status |-> "400", body |-> "No data loaded"])
       ELSE Goto(t, "select") /\ UNCHANGED local
    /\ UNCHANGED <<dbvars, resp>>

\* query(): db.query_data(filters)
QuerySelect(t) ==
    /\ pc[t] = "select"
    /\ IF QueryData(DB, local[t].filters).raised
       THEN Answer(t, [op |-> "query", status |-> "500", body |-> "error"])
       ELSE /\ local' = [local EXCEPT ![t].data = QueryData(DB, local[t].filters).data]
            /\ Goto(t, "total")
    /\ UNCHANGED <<dbvars, resp>>

\* query(): jsonify(... "total": db.total_rows)
QueryTotal(t) ==
    /\ pc[t] = "total"
    /\ Answer(t, [op |-> "query", status |-> "200",
                  body |-> [data |-> local[t].data, total |-> total_rows]])
    /\ UNCHANGED <<dbvars, resp>>

\* stats(): if not db.loaded; then get_stats reads self.columns["numerical"]
StatsCheck(t) ==
    /\ pc[t] = "stats"
    /\ IF ~loaded
       THEN Answer(t, [op |-> "stats", status |-> "400", body |-> "No data loaded"])
       ELSE /\ local' = [local EXCEPT ![t].todo = columns.numerical]
            /\ Goto(t, "agg")
    /\ UNCHANGED <<dbvars, resp>>

\* get_stats: the aggregate SELECT of the next column, or the return
StatsAggregate(t) ==
    /\ pc[t] = "agg"
    /\ IF local[t].todo = <<>>
       THEN Answer(t, [op |-> "stats", status |-> "200", body |-> local[t].acc])
       ELSE LET w == BuildWhere(local[t].filters)
                agg == SelectCol(qc_data, Head(local[t].todo), w.where, w.params)
            IN IF ~agg.ok
               THEN Answer(t, [op |-> "stats", status |-> "500", body |-> "error"])
               ELSE /\ local' = [local EXCEPT ![t].row = Aggregate(agg.vals)]
                    /\ Goto(t, "points")
    /\ UNCHANGED <<dbvars, resp>>

\* get_stats: the points SELECT of the column and its record
StatsPoints(t) ==
    /\ pc[t] = "points"
    /\ LET col == Head(local[t].todo)
           w == BuildWhere(local[t].filters)
           pts == SelectColNotNull(qc_data, col, w.where, w.params)
       IN IF ~pts.ok
          THEN Answer(t, [op |-> "stats", status |-> "500", body |-> "error"])
          ELSE /\ local' = [local EXCEPT
                               ![t].acc = Append(@, <<col, StatsRecord(local[t].row, pts.vals,
                                                                       NewPoints(DB, col, w))>>),
                               ![t].todo = Tail(@)]
               /\ Goto(t, "agg")
    /\ UNCHANGED <<dbvars, resp>>

ConcNext ==
    \/ \E t \in Uploaders, file \in ConcFiles : UploadBegin(t, file)
    \/ \E t \in Uploaders : UploadDrop(t)
    \/ \E t \in Uploaders : UploadCreate(t)
    \/ \E t \in Uploaders : UploadClassify(t)
    \/ \E t \in Uploaders : UploadOptions(t)
    \/ \E t \in Uploaders : UploadCount(t)
    \/ \E t \in Uploaders : UploadFlag(t)
    \/ \E op \in {"query", "stats"} : ReadBegin("q", op)
    \/ QueryCheck("q")
    \/ QuerySelect("q")
    \/ QueryTotal("q")
    \/ StatsCheck("q")
    \/ StatsAggregate("q")
    \/ StatsPoints("q")

ConcSpec == Init /\ [][ConcNext]_vars

\* C3: under concurrent service a load is atomic for observers.  Every file
\* uploaded here is readable and every read uses the empty selection, so: no
\* query or stats answers with an error (the table dropped, not yet
\* re-created); a query answer's total is the number of rows it carries and a
\* stats answer's points are bounded by its min and max (no mix of two
\* tables); no upload fails (two loads do not interleave); and when no
\* upload is running the metadata is that of the table in the engine.
C3_LoadsAtomicForObservers ==
    /\ \A t \in Threads : local[t].seen.status # "500"
    /\ \A t \in Threads :
         (local[t].seen.op = "query" /\ local[t].seen.status = "200")
            => local[t].seen.body.total = Len(local[t].seen.body.data)
    /\ \A t \in Threads :
         (local[t].seen.op = "stats" /\ local[t].seen.status = "200")
            => \A k \in 1..Len(local[t].seen.body) :
                 LET rec == local[t].seen.body[k][2]
                 IN \A i \in 1..Len(rec.points) :
                      rec.min.n <= rec.points[i].n /\ rec.points[i].n <= rec.max.n
    /\ (loaded /\ \A t \in Uploaders : pc[t] = "idle")
         => /\ qc_data.exists
            /\ total_rows = Len(qc_data.rows)
            /\ columns = ClassifyColumns(qc_data)
            /\ filter_options = BuildFilterOptions(qc_data, columns.categorical)

====
